---------------------------- MODULE Spec2Model ----------------------------
(***************************************************************************)
(* Model of the sales-reporting application's DataManager (src/main.py):   *)
(* the in-memory table `sales_data`, the backing CSV file, and the         *)
(* operations that load, extend, persist and query the table; and of the   *)
(* navigation shell around it: the login window, the dashboard with its    *)
(* buttons and the import view's "Save Data".                              *)
(*                                                                         *)
(* Spec is the DataManager under any sequence of calls, as run_tests.py    *)
(* drives it, without a window; AppSpec is the application from start-up:  *)
(* login attempts, then imports through the import view.                   *)
(*                                                                         *)
(* A table cell is a record [k, v]; k is the kind of value held:           *)
(*   "null"   NaN / NaT / empty CSV field                                  *)
(*   "ts"     a pandas Timestamp, v = days since 2024-06-01                *)
(*   "isotxt" text that parses as the date v days after 2024-06-01         *)
(*   "badtxt" text that parses neither as a date nor as a number           *)
(*   "num"    a number v                                                   *)
(*   "numtxt" text that parses as the number v                             *)
(*   "txt"    free text of a column the program never reads                *)
(* Branch and Product cells are strings, NA standing for a missing value.  *)
(***************************************************************************)
EXTENDS Integers, Sequences, FiniteSets, TLC

VARIABLES
    file,        \* the backing CSV file: [state, cols, rows]
    sales_data,  \* DataManager.sales_data: [cols, rows]
    pc,          \* "returned": a call has just returned; "idle": event loop
    op,          \* name of the call that has just returned
    batch,       \* add_data's argument new_df, as passed by the caller
    qargs,       \* arguments of the query that has just returned
    ret,         \* "True"/"False" (add_data), "value", "None", "raised"
    msg,         \* title of the message box the call showed, or "none"
    wrote,       \* "no": no write attempted; "ok": written; "failed"
    result,      \* rows of the value a query returned
    old_data,    \* sales_data when the call started
    old_file,    \* file when the call started
    dashboard_page, \* MainApp.dashboard_page: None, or the dashboard shown
    main_window, \* the Tk root: "withdrawn", "shown" or "destroyed"
    login_page,  \* the LoginPage window and its password entry and error label
    exit_page,   \* the ExitConfirmationPage: "none", "shown" or "withdrawn"
    open_page,   \* the BasePage that is open (it holds the grab), or NoPage
    open_analysis_windows  \* MainApp.open_analysis_windows, as page titles

(* The windows of the application. *)
shell == <<main_window, login_page, exit_page, open_page,
           open_analysis_windows>>

vars == <<file, sales_data, pc, op, batch, qargs, ret, msg, wrote, result,
          old_data, old_file, dashboard_page, main_window, login_page,
          exit_page, open_page, open_analysis_windows>>

----------------------------------------------------------------------------
(* Bounds of the model. *)

MaxRows == 3       \* add_data is explored while the table has at most so many rows
MaxBatch == 2      \* rows of an import batch
MaxFileRows == 1   \* rows of the backing file found at startup

----------------------------------------------------------------------------
(* Cells, rows and frames. *)

Null == [k |-> "null", v |-> 0]
Ts(d) == [k |-> "ts", v |-> d]
IsoTxt(d) == [k |-> "isotxt", v |-> d]
BadTxt == [k |-> "badtxt", v |-> 0]
Num(n) == [k |-> "num", v |-> n]
NumTxt(n) == [k |-> "numtxt", v |-> n]
Txt == [k |-> "txt", v |-> 0]
NA == "<NA>"

required_cols == {"Date", "Branch", "Product", "Quantity", "UnitPrice", "Total"}

DayNames == <<"Monday", "Tuesday", "Wednesday", "Thursday", "Friday",
              "Saturday", "Sunday">>

EmptyFrame == [cols |-> required_cols, rows |-> <<>>]

RawRow(date, branch, product, qty, price, total) ==
    [Date |-> date, Branch |-> branch, Product |-> product, Quantity |-> qty,
     UnitPrice |-> price, Total |-> total, Notes |-> Null]

(* The rows import files and the backing file are built from: the two     *)
(* records of the test scenario, a refund dated 2025-01-01, and one row    *)
(* per kind of defect.                                                     *)
RawRows ==
    { RawRow(IsoTxt(0), "Colombo", "Milk", NumTxt(5), NumTxt(150), NumTxt(750)),
      RawRow(IsoTxt(1), "Kandy", "Bread", NumTxt(10), NumTxt(50), NumTxt(500)),
      RawRow(IsoTxt(214), "Colombo", "Milk", NumTxt(0 - 1), NumTxt(150), NumTxt(0 - 150)),
      RawRow(BadTxt, "Kandy", "Bread", NumTxt(1), NumTxt(50), NumTxt(50)),
      RawRow(IsoTxt(1), "Colombo", "Bread", BadTxt, NumTxt(50), NumTxt(50)),
      RawRow(Null, NA, "Milk", NumTxt(1), NumTxt(150), NumTxt(150)) }

ColumnSets ==
    { required_cols, required_cols \cup {"Notes"}, required_cols \ {"Total"} }

(* A frame holds a value only in the columns it has. *)
Project(row, cols) ==
    [Date |-> IF "Date" \in cols THEN row.Date ELSE Null,
     Branch |-> IF "Branch" \in cols THEN row.Branch ELSE NA,
     Product |-> IF "Product" \in cols THEN row.Product ELSE NA,
     Quantity |-> IF "Quantity" \in cols THEN row.Quantity ELSE Null,
     UnitPrice |-> IF "UnitPrice" \in cols THEN row.UnitPrice ELSE Null,
     Total |-> IF "Total" \in cols THEN row.Total ELSE Null,
     Notes |-> IF "Notes" \in cols THEN Txt ELSE Null]

SeqsUpTo(S, n) == UNION { [1..k -> S] : k \in 0..n }

Tables(n) ==
    { [cols |-> c, rows |-> [i \in DOMAIN rs |-> Project(rs[i], c)]] :
        c \in ColumnSets, rs \in SeqsUpTo(RawRows, n) }

Batches == { b \in Tables(MaxBatch) : b.rows # <<>> }

InitFiles ==
    { [state |-> "missing", cols |-> {}, rows |-> <<>>],
      [state |-> "corrupt", cols |-> {}, rows |-> <<>>] }
    \cup { [state |-> "ok", cols |-> t.cols, rows |-> t.rows] : t \in Tables(MaxFileRows) }

----------------------------------------------------------------------------
(* Conversions. *)

(* pd.to_datetime on one cell (the caller decides what a failure means). *)
to_datetime(c) == IF c.k = "isotxt" THEN Ts(c.v) ELSE c

(* pd.to_numeric(..., errors='coerce') on one cell. *)
to_numeric(c) ==
    IF c.k = "numtxt" THEN Num(c.v)
    ELSE IF c.k = "num" THEN c
    ELSE Null

(* DataFrame.to_csv on one cell. *)
to_csv_cell(c) ==
    IF c.k = "ts" THEN IsoTxt(c.v)
    ELSE IF c.k = "num" THEN NumTxt(c.v)
    ELSE c

to_csv_row(r) ==
    [Date |-> to_csv_cell(r.Date), Branch |-> r.Branch, Product |-> r.Product,
     Quantity |-> to_csv_cell(r.Quantity), UnitPrice |-> to_csv_cell(r.UnitPrice),
     Total |-> to_csv_cell(r.Total), Notes |-> to_csv_cell(r.Notes)]

to_csv(df) ==
    [state |-> "ok", cols |-> df.cols,
     rows |-> [i \in DOMAIN df.rows |-> to_csv_row(df.rows[i])]]

coerce_numeric(r) ==
    [r EXCEPT !.Quantity = to_numeric(r.Quantity),
              !.UnitPrice = to_numeric(r.UnitPrice),
              !.Total = to_numeric(r.Total)]

(* dropna(subset=[the six columns]) keeps the rows with no missing value. *)
notna(r) ==
    /\ r.Date.k # "null"
    /\ r.Branch # NA
    /\ r.Product # NA
    /\ r.Quantity.k # "null"
    /\ r.UnitPrice.k # "null"
    /\ r.Total.k # "null"

dropna(rows) == SelectSeq(rows, notna)

has_unparsable_date(rows) == \E i \in DOMAIN rows : rows[i].Date.k = "badtxt"

----------------------------------------------------------------------------
(* DataManager._load_data *)

(* read_csv(parse_dates=['Date']): a column holding an unparsable value is  *)
(* returned unaltered, as text.                                            *)
parse_dates(rows) ==
    IF has_unparsable_date(rows) THEN rows
    ELSE [i \in DOMAIN rows |-> [rows[i] EXCEPT !.Date = to_datetime(rows[i].Date)]]

load_fails(f) == f.state = "corrupt" \/ ~(required_cols \subseteq f.cols)

(* Variant of load_failed: the exception is not caught and reaches the     *)
(* caller of _load_data.                                                   *)
load_failed_uncaught == [ret |-> "raised", df |-> EmptyFrame, msg |-> "none"]

(* The except branch: every exception of the try block is caught, shown    *)
(* as "Data Load Error" and answered with an empty six-column table.       *)
load_failed == [ret |-> "value", df |-> EmptyFrame, msg |-> "Data Load Error"]

_load_data(f) ==
    IF f.state = "missing" THEN [ret |-> "value", df |-> EmptyFrame, msg |-> "none"]
    ELSE IF load_fails(f) THEN load_failed
    ELSE LET parsed == parse_dates(f.rows)
             typed == [i \in DOMAIN parsed |-> coerce_numeric(parsed[i])]
         IN [ret |-> "value", df |-> [cols |-> f.cols, rows |-> dropna(typed)],
             msg |-> "none"]

(* path_chosen: the answer of export_data's save dialog; queried: the     *)
(* DataManager query a view's handler called; start_str, end_str: the     *)
(* texts of a view's two date entries; username, password: what the login *)
(* entries held when Login was pressed.                                   *)
NoArgs ==
    [ranged |-> FALSE, start |-> 0, end |-> 0, branch |-> "None",
     product |-> "None", year |-> 0, month |-> 0, path_chosen |-> FALSE,
     queried |-> "none", start_str |-> Null, end_str |-> Null,
     username |-> "", password |-> ""]
NoBatch == [cols |-> {}, rows |-> <<>>]

(* MainApp.__init__: no dashboard before the login. *)
None == [user_role |-> "None", buttons |-> <<>>, state |-> <<>>,
         exit_button |-> "none"]

(* No BasePage is open.  An open page is its title, the rows its table  *)
(* displays, and, for the import view, the chosen file, preview_df and    *)
(* the state of the "Save to System" button.                              *)
NoFile == [kind |-> "none", table |-> NoBatch]
NoPreview == [cols |-> {"None"}, rows |-> <<>>]
NoPage == [title |-> "none", displayed |-> <<>>, file_path |-> NoFile,
           preview_df |-> NoPreview, save_button |-> "none"]

(* LoginPage.__init__: empty entries, empty error label. *)
LoginPage == [open |-> TRUE, password_entry |-> "", error_label |-> ""]
NoLogin == [open |-> FALSE, password_entry |-> "", error_label |-> ""]

(* DataManager.__init__: the table is what _load_data returns.  It runs in *)
(* MainApp.__init__, after the root is withdrawn and before show_login: if *)
(* _load_data raises there is no application.                              *)
Init ==
    /\ file \in InitFiles
    /\ sales_data = _load_data(file).df
    /\ msg = _load_data(file).msg
    /\ pc = "returned"
    /\ op = "_load_data"
    /\ batch = NoBatch
    /\ qargs = NoArgs
    /\ ret = _load_data(file).ret
    /\ wrote = "no"
    /\ result = <<>>
    /\ old_data = EmptyFrame
    /\ old_file = file
    /\ dashboard_page = None
    /\ main_window = IF _load_data(file).ret = "raised" THEN "destroyed"
                     ELSE "withdrawn"
    /\ login_page = IF _load_data(file).ret = "raised" THEN NoLogin
                    ELSE LoginPage
    /\ exit_page = "none"
    /\ open_page = NoPage
    /\ open_analysis_windows = <<>>

(* The call returns to the event loop; its locals are gone. *)
Return ==
    /\ pc = "returned"
    /\ pc' = "idle"
    /\ op' = "none"
    /\ batch' = NoBatch
    /\ qargs' = NoArgs
    /\ ret' = "None"
    /\ msg' = "none"
    /\ wrote' = "no"
    /\ result' = <<>>
    /\ old_data' = sales_data
    /\ old_file' = file
    /\ UNCHANGED <<file, sales_data, dashboard_page>>
    /\ UNCHANGED shell

----------------------------------------------------------------------------
(* DataManager.add_data and DataManager._save_data *)

has_required_cols(cols) == \A col \in required_cols : col \in cols

(* The conversions of the try block; the to_datetime call raises on text   *)
(* that is no date, before anything is assigned.                           *)
convert(rows) ==
    [i \in DOMAIN rows |->
        coerce_numeric([rows[i] EXCEPT !.Date = to_datetime(rows[i].Date)])]

(* Variant of concat: the new rows are put before the old ones. *)
concat_prepended(a, b) == [cols |-> a.cols \cup b.cols, rows |-> b.rows \o a.rows]

(* pd.concat([a, b], ignore_index=True): the union of the columns, a's rows *)
(* followed by b's, with NaN where a frame lacks a column.                  *)
concat(a, b) == [cols |-> a.cols \cup b.cols, rows |-> a.rows \o b.rows]

(* Variant of import_rows: no check of the required columns, and dropna    *)
(* looks at the required columns the batch has.                            *)
import_rows_lenient(new_df) ==
    LET kept(r) == \/ has_required_cols(new_df.cols) /\ notna(r)
                   \/ ~has_required_cols(new_df.cols) /\ r.Date.k # "null"
        rows == SelectSeq(convert(new_df.rows), kept)
    IN IF has_unparsable_date(new_df.rows)
       THEN [ok |-> FALSE, msg |-> "Data Conversion Error", rows |-> <<>>]
       ELSE IF rows = <<>>
       THEN [ok |-> FALSE, msg |-> "No Valid Data", rows |-> <<>>]
       ELSE [ok |-> TRUE, msg |-> "none", rows |-> rows]

(* Lines 43-63: what add_data decides about new_df before it touches the  *)
(* table: the answer, the message shown and the rows to append.            *)
import_rows(new_df) ==
    IF ~has_required_cols(new_df.cols)
    THEN [ok |-> FALSE, msg |-> "Import Error", rows |-> <<>>]
    ELSE IF has_unparsable_date(new_df.rows)
    THEN [ok |-> FALSE, msg |-> "Data Conversion Error", rows |-> <<>>]
    ELSE IF dropna(convert(new_df.rows)) = <<>>
    THEN [ok |-> FALSE, msg |-> "No Valid Data", rows |-> <<>>]
    ELSE [ok |-> TRUE, msg |-> "none", rows |-> dropna(convert(new_df.rows))]

(* Variant of write_csv: a failed write is swallowed without a message. *)
write_csv_silent(df, f, io_ok) ==
    IF io_ok THEN [file |-> to_csv(df), wrote |-> "ok", msg |-> "none"]
    ELSE [file |-> f, wrote |-> "failed", msg |-> "none"]

(* The body of _save_data: io_ok tells whether to_csv succeeds; a failed   *)
(* write is shown ("Save Error") and swallowed, and leaves the file f as   *)
(* it was.                                                                 *)
write_csv(df, f, io_ok) ==
    IF io_ok THEN [file |-> to_csv(df), wrote |-> "ok", msg |-> "none"]
    ELSE [file |-> f, wrote |-> "failed", msg |-> "Save Error"]

(* The call of add_data by the caller `name`. *)
add_data_call(name, new_df, io_ok) ==
    /\ pc = "idle"
    /\ Len(sales_data.rows) + Len(new_df.rows) <= MaxRows
    /\ pc' = "returned"
    /\ op' = name
    /\ batch' = new_df
    /\ qargs' = NoArgs
    /\ result' = <<>>
    /\ old_data' = sales_data
    /\ old_file' = file
    /\ IF ~import_rows(new_df).ok
       THEN /\ msg' = import_rows(new_df).msg
            /\ ret' = "False"
            /\ wrote' = "no"
            /\ UNCHANGED <<file, sales_data>>
       ELSE /\ sales_data' = concat(sales_data,
                                    [cols |-> new_df.cols,
                                     rows |-> import_rows(new_df).rows])
            /\ LET w == write_csv(sales_data', file, io_ok)
               IN file' = w.file /\ wrote' = w.wrote /\ msg' = w.msg
            /\ ret' = "True"

add_data(new_df, io_ok) ==
    /\ add_data_call("add_data", new_df, io_ok)
    /\ dashboard_page' = dashboard_page
    /\ UNCHANGED shell

----------------------------------------------------------------------------
(* Helpers of the queries. *)

(* Timestamp.day_name(): day 0 is 2024-06-01, a Saturday. *)
day_name(d) == DayNames[((d + 5) % 7) + 1]

(* Timestamp.year and Timestamp.month, for 2024-06-01 .. 2025-01-31. *)
year_of(d) == IF d < 214 THEN 2024 ELSE 2025

month_of(d) ==
    IF d < 30 THEN 6 ELSE IF d < 61 THEN 7 ELSE IF d < 92 THEN 8
    ELSE IF d < 122 THEN 9 ELSE IF d < 153 THEN 10 ELSE IF d < 183 THEN 11
    ELSE IF d < 214 THEN 12 ELSE 1

(* The order of Python's sorted() on the names that occur. *)
BranchOrder == <<"Colombo", "Kandy">>
ProductOrder == <<"Bread", "Eggs", "Milk">>

(* DataFrame.empty *)
empty(df) == df.rows = <<>>

(* The Date column holds Timestamps only (dtype datetime64); with any text  *)
(* in it the column is of dtype object.                                    *)
is_datetime(rows) == \A i \in DOMAIN rows : rows[i].Date.k = "ts"

(* `branch and branch != "All Branches"` *)
branch_given(branch) == branch # "None" /\ branch # "All Branches"

in_range(rows, start, end) ==
    LET keep(r) == r.Date.v >= start /\ r.Date.v <= end
    IN SelectSeq(rows, keep)

of_branch(rows, branch) ==
    LET keep(r) == r.Branch = branch
    IN IF branch_given(branch) THEN SelectSeq(rows, keep) ELSE rows

of_product(rows, product) ==
    LET keep(r) == r.Product = product
    IN SelectSeq(rows, keep)

(* Series.sum() of the cells' numbers. *)
RECURSIVE sum(_)
sum(cells) ==
    IF cells = <<>> THEN 0 ELSE cells[1].v + sum(Tail(cells))

column(rows, name) ==
    [i \in DOMAIN rows |->
        IF name = "Quantity" THEN rows[i].Quantity
        ELSE IF name = "UnitPrice" THEN rows[i].UnitPrice
        ELSE rows[i].Total]

(* DataFrame.sort_values(by=...) with the default kind ('quicksort'): the   *)
(* rows come back in ascending order of the integer keys key[i]; the sort  *)
(* is not a stable one, so rows with equal keys come back in whatever      *)
(* order the library's sort leaves them.  The set of possible results.     *)
sort_values(seq, key) ==
    LET n == Len(seq)
        orders == { p \in [1..n -> 1..n] :
                      /\ \A i, j \in 1..n : i # j => p[i] # p[j]
                      /\ \A i \in 1..(n - 1) : key[p[i]] <= key[p[i + 1]] }
    IN { [i \in 1..n |-> seq[p[i]]] : p \in orders }

Raised == [ret |-> "raised", rows |-> <<>>]
Value(rows) == [ret |-> "value", rows |-> rows]

----------------------------------------------------------------------------
(* DataManager.get_weekly_sales *)

zero_week == [i \in 1..7 |-> [DayOfWeek |-> DayNames[i], Total |-> 0]]

(* Variant of weekly_total: the sum is taken with the wrong sign. *)
weekly_total_negated(rows, day) ==
    LET on_day(r) == day_name(r.Date.v) = day
        group == SelectSeq(rows, on_day)
    IN IF group = <<>> THEN 0 ELSE 0 - sum(column(group, "Total"))

(* groupby('DayOfWeek')['Total'].sum().reindex(DayNames, fill_value=0) *)
weekly_total(rows, day) ==
    LET on_day(r) == day_name(r.Date.v) = day
        group == SelectSeq(rows, on_day)
    IN IF group = <<>> THEN 0 ELSE sum(column(group, "Total"))

weekly_sales(df, start, end, branch) ==
    IF empty(df) THEN Value(zero_week)
    ELSE IF ~is_datetime(df.rows) THEN Raised
    ELSE LET rows == of_branch(in_range(df.rows, start, end), branch)
         IN IF rows = <<>> THEN Value(zero_week)
            ELSE Value([i \in 1..7 |->
                          [DayOfWeek |-> DayNames[i],
                           Total |-> weekly_total(rows, DayNames[i])]])

----------------------------------------------------------------------------
(* DataManager.get_monthly_sales *)

(* year = 0 and month = 0 stand for None (both are falsy in the code). *)
monthly_sales(df, branch, year, month) ==
    IF empty(df) THEN Value(<<>>)
    ELSE IF (year # 0 \/ month # 0) /\ ~is_datetime(df.rows) THEN Raised
    ELSE LET in_year(r) == year = 0 \/ year_of(r.Date.v) = year
             in_month(r) == month = 0 \/ month_of(r.Date.v) = month
             rows == SelectSeq(SelectSeq(of_branch(df.rows, branch), in_year), in_month)
             has(p) == of_product(rows, p) # <<>>
             groups == SelectSeq(ProductOrder, has)
         IN Value([i \in DOMAIN groups |->
                     LET g == of_product(rows, groups[i])
                     IN [Product |-> groups[i],
                         Quantity |-> sum(column(g, "Quantity")),
                         UnitPrice |-> [sum |-> sum(column(g, "UnitPrice")),
                                        count |-> Len(g)],
                         Total |-> sum(column(g, "Total"))]])

----------------------------------------------------------------------------
(* DataManager.get_product_price_history *)

(* The sort key of a Date cell: Timestamps by day; in a column of text,    *)
(* ISO dates sort by day and text that is no date sorts after the digits.  *)
date_key(c) == IF c.k = "badtxt" THEN 1000 ELSE c.v

drop_duplicates(pairs) ==
    LET f[i \in 0..Len(pairs)] ==
            IF i = 0 THEN <<>>
            ELSE IF \E j \in 1..(i - 1) : pairs[j] = pairs[i] THEN f[i - 1]
            ELSE Append(f[i - 1], pairs[i])
    IN f[Len(pairs)]

(* sort_values raises when it has to compare a Timestamp with text. *)
mixed_dates(pairs) ==
    /\ \E i \in DOMAIN pairs : pairs[i].Date.k = "ts"
    /\ \E i \in DOMAIN pairs : pairs[i].Date.k # "ts"

(* The set of outcomes the call can have. *)
product_price_history(df, product_name) ==
    IF empty(df) THEN {Value(<<>>)}
    ELSE LET rows == of_product(df.rows, product_name)
             pairs == drop_duplicates(
                        [i \in DOMAIN rows |->
                            [Date |-> rows[i].Date, UnitPrice |-> rows[i].UnitPrice]])
         IN IF mixed_dates(pairs) THEN {Raised}
            ELSE { Value(s) : s \in sort_values(pairs,
                       [i \in DOMAIN pairs |-> date_key(pairs[i].Date)]) }

----------------------------------------------------------------------------
(* DataManager.get_product_preferences and get_sales_distribution *)

(* The set of outcomes the call can have. *)
product_preferences(df, ranged, start, end, branch) ==
    IF empty(df) THEN {Value(<<>>)}
    ELSE IF ranged /\ ~is_datetime(df.rows) THEN {Raised}
    ELSE LET rows == of_branch(IF ranged THEN in_range(df.rows, start, end)
                               ELSE df.rows, branch)
             has(p) == of_product(rows, p) # <<>>
             groups == SelectSeq(ProductOrder, has)
             agg == [i \in DOMAIN groups |->
                       LET g == of_product(rows, groups[i])
                       IN [Product |-> groups[i],
                           UnitsSold |-> sum(column(g, "Quantity")),
                           Revenue |-> sum(column(g, "Total"))]]
         IN { Value(s) : s \in sort_values(agg,
                    [i \in DOMAIN agg |-> 0 - agg[i].UnitsSold]) }

sales_distribution(df, ranged, start, end, branch) ==
    IF empty(df) THEN Value(<<>>)
    ELSE IF ranged /\ ~is_datetime(df.rows) THEN Raised
    ELSE LET rows == of_branch(IF ranged THEN in_range(df.rows, start, end)
                               ELSE df.rows, branch)
         IN Value([i \in DOMAIN rows |-> rows[i].Total.v])

----------------------------------------------------------------------------
(* DataManager.get_branches, get_products, get_years *)

branches(df) ==
    LET has(b) == \E i \in DOMAIN df.rows : df.rows[i].Branch = b
    IN Value(IF empty(df) THEN <<>> ELSE SelectSeq(BranchOrder, has))

products(df) ==
    LET has(p) == \E i \in DOMAIN df.rows : df.rows[i].Product = p
    IN Value(IF empty(df) THEN <<>> ELSE SelectSeq(ProductOrder, has))

(* datetime.now().year is whatever year the program runs in. *)
years(df, now_year) ==
    LET has(y) == \E i \in DOMAIN df.rows : year_of(df.rows[i].Date.v) = y
    IN IF ~empty(df) /\ "Date" \in df.cols
       THEN IF is_datetime(df.rows) THEN Value(SelectSeq(<<2024, 2025>>, has)) ELSE Raised
       ELSE Value(<<now_year>>)

----------------------------------------------------------------------------
(* The calls, as steps of the program. *)

QueryRanges == { <<0, 0>>, <<0, 1>>, <<1, 214>>, <<0, 214>>, <<214, 0>> }
BranchArgs == {"None", "All Branches", "Colombo", "Galle"}
ProductArgs == {"Bread", "Milk", "Rice"}
YearMonthArgs == { <<0, 0>>, <<2024, 0>>, <<2024, 6>>, <<2025, 1>>, <<0, 6>>,
                   <<2025, 6>> }
NowYears == {2025, 2026}

(* What every query leaves alone, and how it hands back `r`. *)
Returns(name, args, r) ==
    /\ pc = "idle"
    /\ pc' = "returned"
    /\ op' = name
    /\ batch' = NoBatch
    /\ qargs' = args
    /\ ret' = r.ret
    /\ result' = r.rows
    /\ msg' = "none"
    /\ wrote' = "no"
    /\ old_data' = sales_data
    /\ old_file' = file
    /\ file' = file
    /\ dashboard_page' = dashboard_page
    /\ UNCHANGED shell

(* Variant of get_weekly_sales: the DayOfWeek column is added to the shared *)
(* table instead of to a copy of the filtered rows.                        *)
get_weekly_sales_inplace(start_date, end_date, branch) ==
    /\ Returns("get_weekly_sales",
               [NoArgs EXCEPT !.ranged = TRUE, !.start = start_date,
                              !.end = end_date, !.branch = branch],
               weekly_sales(sales_data, start_date, end_date, branch))
    /\ sales_data' = IF empty(sales_data) \/ ~is_datetime(sales_data.rows)
                     THEN sales_data
                     ELSE [sales_data EXCEPT !.cols = @ \cup {"DayOfWeek"}]

get_weekly_sales(start_date, end_date, branch) ==
    /\ Returns("get_weekly_sales",
               [NoArgs EXCEPT !.ranged = TRUE, !.start = start_date,
                              !.end = end_date, !.branch = branch],
               weekly_sales(sales_data, start_date, end_date, branch))
    /\ sales_data' = sales_data

get_monthly_sales(branch, year, month) ==
    /\ Returns("get_monthly_sales",
               [NoArgs EXCEPT !.branch = branch, !.year = year, !.month = month],
               monthly_sales(sales_data, branch, year, month))
    /\ sales_data' = sales_data

get_product_price_history(product_name) ==
    /\ \E r \in product_price_history(sales_data, product_name) :
          Returns("get_product_price_history",
                  [NoArgs EXCEPT !.product = product_name], r)
    /\ sales_data' = sales_data

get_product_preferences(ranged, start, end, branch) ==
    /\ \E r \in product_preferences(sales_data, ranged, start, end, branch) :
          Returns("get_product_preferences",
                  [NoArgs EXCEPT !.ranged = ranged, !.start = start,
                                 !.end = end, !.branch = branch], r)
    /\ sales_data' = sales_data

get_sales_distribution(ranged, start, end, branch) ==
    /\ Returns("get_sales_distribution",
               [NoArgs EXCEPT !.ranged = ranged, !.start = start, !.end = end,
                              !.branch = branch],
               sales_distribution(sales_data, ranged, start, end, branch))
    /\ sales_data' = sales_data

get_branches ==
    /\ Returns("get_branches", NoArgs, branches(sales_data))
    /\ sales_data' = sales_data

get_products ==
    /\ Returns("get_products", NoArgs, products(sales_data))
    /\ sales_data' = sales_data

(* qargs.year keeps the year the clock showed at the call. *)
get_years(now_year) ==
    /\ Returns("get_years", [NoArgs EXCEPT !.year = now_year],
               years(sales_data, now_year))
    /\ sales_data' = sales_data

(* _save_data called on its own. *)
_save_data(io_ok) ==
    /\ pc = "idle"
    /\ pc' = "returned"
    /\ op' = "_save_data"
    /\ batch' = NoBatch
    /\ qargs' = NoArgs
    /\ ret' = "None"
    /\ result' = <<>>
    /\ old_data' = sales_data
    /\ old_file' = file
    /\ sales_data' = sales_data
    /\ dashboard_page' = dashboard_page
    /\ UNCHANGED shell
    /\ LET w == write_csv(sales_data, file, io_ok)
       IN file' = w.file /\ wrote' = w.wrote /\ msg' = w.msg

Query ==
    \/ \E d \in QueryRanges, b \in BranchArgs : get_weekly_sales(d[1], d[2], b)
    \/ \E b \in BranchArgs, ym \in YearMonthArgs :
          get_monthly_sales(b, ym[1], ym[2])
    \/ \E p \in ProductArgs : get_product_price_history(p)
    \/ \E d \in QueryRanges, b \in BranchArgs :
          get_product_preferences(TRUE, d[1], d[2], b)
    \/ \E b \in BranchArgs : get_product_preferences(FALSE, 0, 0, b)
    \/ \E d \in QueryRanges, b \in BranchArgs :
          get_sales_distribution(TRUE, d[1], d[2], b)
    \/ \E b \in BranchArgs : get_sales_distribution(FALSE, 0, 0, b)
    \/ get_branches
    \/ get_products
    \/ \E y \in NowYears : get_years(y)

----------------------------------------------------------------------------
(* DataExportPage.export_data: the view's filters are the two dropdowns and *)
(* the two date entries (text); path_chosen is the save dialog's answer and *)
(* io_ok whether the export file could be written.  The exported file is    *)
(* not the backing file; its rows are handed back in `result`.              *)

(* Variant of strptime_ok: any text is taken for a date. *)
strptime_any_text(c) == TRUE

(* datetime.strptime(text, '%Y-%m-%d') succeeds on ISO text only. *)
strptime_ok(c) == c.k = "isotxt"

(* Variant of export_rows: the product selection is not applied. *)
export_rows_any_product(df, branch, product, start, end) ==
    LET by_branch(r) == branch = "All Branches" \/ r.Branch = branch
        picked == SelectSeq(df.rows, by_branch)
    IN IF ~is_datetime(picked) THEN Raised
       ELSE Value(in_range(picked, start, end))

export_rows(df, branch, product, start, end) ==
    LET by_branch(r) == branch = "All Branches" \/ r.Branch = branch
        by_product(r) == product = "All Products" \/ r.Product = product
        picked == SelectSeq(SelectSeq(df.rows, by_branch), by_product)
    IN IF ~is_datetime(picked) THEN Raised
       ELSE Value(in_range(picked, start, end))

export_outcome(df, branch, product, start_str, end_str, path_chosen, io_ok) ==
    IF empty(df) THEN [msg |-> "No Data", wrote |-> "no", rows |-> <<>>]
    ELSE IF ~strptime_ok(start_str) \/ ~strptime_ok(end_str)
    THEN [msg |-> "Input Error", wrote |-> "no", rows |-> <<>>]
    ELSE IF start_str.v > end_str.v
    THEN [msg |-> "Input Error", wrote |-> "no", rows |-> <<>>]
    ELSE LET r == export_rows(df, branch, product, start_str.v, end_str.v)
         IN IF r.ret = "raised"
            THEN [msg |-> "Export Error", wrote |-> "no", rows |-> <<>>]
            ELSE IF r.rows = <<>>
            THEN [msg |-> "No Data", wrote |-> "no", rows |-> <<>>]
            ELSE IF ~path_chosen
            THEN [msg |-> "none", wrote |-> "no", rows |-> <<>>]
            ELSE IF ~io_ok
            THEN [msg |-> "Export Error", wrote |-> "failed", rows |-> <<>>]
            ELSE [msg |-> "none", wrote |-> "export",
                  rows |-> [i \in DOMAIN r.rows |-> to_csv_row(r.rows[i])]]

ExportDates == { <<IsoTxt(0), IsoTxt(214)>>, <<IsoTxt(214), IsoTxt(0)>>,
                 <<IsoTxt(1), IsoTxt(1)>>, <<BadTxt, IsoTxt(0)>> }

(* The save dialog is cancelled, or a path is chosen and the write succeeds *)
(* or fails.                                                               *)
ExportEnds == { <<FALSE, TRUE>>, <<TRUE, TRUE>>, <<TRUE, FALSE>> }

export_data(branch, product, start_str, end_str, path_chosen, io_ok) ==
    /\ pc = "idle"
    /\ pc' = "returned"
    /\ op' = "export_data"
    /\ batch' = NoBatch
    /\ qargs' = [NoArgs EXCEPT !.ranged = TRUE, !.start = start_str.v,
                               !.end = end_str.v, !.branch = branch,
                               !.product = product,
                               !.path_chosen = path_chosen,
                               !.start_str = start_str,
                               !.end_str = end_str,
                               !.queried =
                                  IF \/ empty(sales_data)
                                     \/ ~strptime_ok(start_str)
                                     \/ ~strptime_ok(end_str)
                                     \/ start_str.v > end_str.v
                                  THEN "none" ELSE "export filter"]
    /\ ret' = "None"
    /\ LET o == export_outcome(sales_data, branch, product, start_str, end_str,
                               path_chosen, io_ok)
       IN msg' = o.msg /\ wrote' = o.wrote /\ result' = o.rows
    /\ old_data' = sales_data
    /\ old_file' = file
    /\ UNCHANGED <<file, sales_data, dashboard_page>>
    /\ UNCHANGED shell

Export ==
    \E b \in {"All Branches", "Colombo"}, p \in {"All Products", "Milk"},
       d \in ExportDates, x \in ExportEnds :
        export_data(b, p, d[1], d[2], x[1], x[2])

Next ==
    \/ Return
    \/ \E new_df \in Batches, io_ok \in BOOLEAN : add_data(new_df, io_ok)
    \/ \E io_ok \in BOOLEAN : _save_data(io_ok)
    \/ Query
    \/ Export

Spec == Init /\ [][Next]_vars

----------------------------------------------------------------------------
(* The navigation shell: LoginPage.attempt_login, MainApp.show_dashboard,  *)
(* DashboardPage and DataImportPage.save_data.                             *)

valid_users == [admin |-> "admin123", analyst |-> "analyst123"]

Usernames == {"admin", "analyst", "guest"}
Passwords == {"admin123", "analyst123", "letmein"}

(* DashboardPage.buttons_config, as the list of the buttons' texts. *)
buttons_config(user_role) ==
    <<"Monthly Sales", "Price Analysis", "Weekly Sales", "Product Preference",
      "Sales Distribution", "Data Import", "Data Export">>
        \o (IF user_role = "admin" THEN <<"Settings">> ELSE <<>>)

(* Variant of update_button_states: "Data Import" is not among the texts   *)
(* the loop skips.                                                         *)
update_button_states_import_too(d, df) ==
    [d EXCEPT !.state =
        [i \in DOMAIN d.buttons |->
            IF d.buttons[i] \in {"Logout / Exit", "Settings"} THEN d.state[i]
            ELSE IF ~empty(df) THEN "normal" ELSE "disabled"]]

(* DashboardPage.update_button_states: every button of buttons_config whose *)
(* text is not in the list of the always enabled ones is set to NORMAL when *)
(* the table has rows and to DISABLED when it has none.                     *)
update_button_states(d, df) ==
    [d EXCEPT !.state =
        [i \in DOMAIN d.buttons |->
            IF d.buttons[i] \in {"Data Import", "Logout / Exit", "Settings"}
            THEN d.state[i]
            ELSE IF ~empty(df) THEN "normal" ELSE "disabled"]]

(* DashboardPage.__init__: the buttons are created (a new button is        *)
(* NORMAL), then the "Logout / Exit" button, then the states are set.      *)
DashboardPage(user_role, df) ==
    update_button_states(
        [user_role |-> user_role,
         buttons |-> buttons_config(user_role),
         state |-> [i \in DOMAIN buttons_config(user_role) |-> "normal"],
         exit_button |-> "normal"], df)

(* MainApp.show_dashboard: a new dashboard replaces the one there is. *)
show_dashboard(user_role, df) == DashboardPage(user_role, df)

(* Variant of update_all_page_dropdowns: the summary is refreshed, the     *)
(* buttons are not.                                                        *)
update_all_page_dropdowns_summary_only(d, df) == d

(* MainApp.update_all_page_dropdowns, as far as the dashboard goes: the    *)
(* summary label (not modelled) and the button states.                     *)
update_all_page_dropdowns(d, df) == update_button_states(d, df)

(* Variant of credentials_ok: the password is not compared. *)
credentials_ok_any_password(username, password) ==
    username \in DOMAIN valid_users

(* Line 273: the pair is one of valid_users. *)
credentials_ok(username, password) ==
    username \in DOMAIN valid_users /\ valid_users[username] = password

(* What a handler of a window leaves alone when it touches no data. *)
handler(name) ==
    /\ pc = "idle"
    /\ pc' = "returned"
    /\ op' = name
    /\ batch' = NoBatch
    /\ ret' = "None"
    /\ wrote' = "no"
    /\ result' = <<>>
    /\ old_data' = sales_data
    /\ old_file' = file
    /\ UNCHANGED <<file, sales_data>>

(* LoginPage.attempt_login on the texts of the two entries: a valid pair   *)
(* shows the dashboard and destroys the login window, any other pair sets  *)
(* the error label and empties the password entry.                         *)
attempt_login(username, password) ==
    /\ login_page.open
    /\ handler("attempt_login")
    /\ qargs' = [NoArgs EXCEPT !.username = username, !.password = password]
    /\ UNCHANGED <<exit_page, open_page, open_analysis_windows>>
    /\ IF credentials_ok(username, password)
       THEN /\ msg' = "Login Success"
            /\ dashboard_page' = show_dashboard(username, sales_data)
            /\ main_window' = "shown"
            /\ login_page' = NoLogin
       ELSE /\ msg' = "Invalid credentials"
            /\ dashboard_page' = dashboard_page
            /\ main_window' = main_window
            /\ login_page' = [login_page EXCEPT !.password_entry = "",
                                 !.error_label = "Invalid credentials"]

(* LoginPage.on_close: closing the login window destroys the root. *)
LoginPage_on_close ==
    /\ login_page.open
    /\ handler("LoginPage.on_close")
    /\ qargs' = NoArgs
    /\ msg' = "none"
    /\ main_window' = "destroyed"
    /\ login_page' = NoLogin
    /\ UNCHANGED <<dashboard_page, exit_page, open_page, open_analysis_windows>>

----------------------------------------------------------------------------
(* The dashboard's buttons and the pages they open. *)

page_title(text) ==
    CASE text = "Monthly Sales" -> "Monthly Sales Analysis"
      [] text = "Price Analysis" -> "Price Analysis"
      [] text = "Weekly Sales" -> "Weekly Sales Summary"
      [] text = "Product Preference" -> "Product Preference Analysis"
      [] text = "Sales Distribution" -> "Sales Distribution Analysis"
      [] text = "Data Import" -> "Data Import"
      [] text = "Data Export" -> "Data Export"
      [] text = "Settings" -> "Settings"

(* The pages that define refresh_dropdowns. *)
RefreshPages ==
    {"Monthly Sales Analysis", "Price Analysis", "Weekly Sales Summary",
     "Product Preference Analysis", "Sales Distribution Analysis",
     "Data Export"}

(* A widget as the <Map> callback sees it: a BasePage is a tk.Toplevel,    *)
(* the dashboard is a tk.Frame packed into the root.                       *)
page_widget(title) ==
    [name |-> title, is_toplevel |-> TRUE,
     has_refresh |-> title \in RefreshPages]
dashboard_widget ==
    [name |-> "DashboardPage", is_toplevel |-> FALSE, has_refresh |-> FALSE]

(* Tk's binding tags: a toplevel's are itself, its class and "all"; those  *)
(* of any other widget also hold the toplevel it is in.  The dashboard is  *)
(* in the root ".".                                                        *)
bindtags(w) ==
    IF w.is_toplevel THEN {w.name, "Toplevel", "all"}
    ELSE {w.name, "Frame", ".", "all"}

Range(seq) == { seq[i] : i \in DOMAIN seq }

(* MainApp._on_window_map for a <Map> event of widget w, when the windows  *)
(* in `existing` exist.                                                    *)
_on_window_map(wins, w, existing) ==
    LET exists(t) == t \in existing
        added == IF w.is_toplevel /\ w.has_refresh /\ w.name \notin Range(wins)
                 THEN Append(wins, w.name) ELSE wins
    IN SelectSeq(added, exists)

(* self.bind("<Map>", self._on_window_map) binds the tag "." : the         *)
(* callback runs for the <Map> events of the widgets that carry that tag.  *)
map_event(wins, w, existing) ==
    IF "." \in bindtags(w) THEN _on_window_map(wins, w, existing) ELSE wins

(* BasePage.__init__ and the pages' __init__: nothing displayed; the       *)
(* import view has no file, no preview and a disabled save button.         *)
BasePage(title) ==
    [NoPage EXCEPT !.title = title,
                   !.save_button = IF title = "Data Import" THEN "disabled"
                                   ELSE "none"]

(* DashboardPage.open_monthly_sales .. open_settings: the button `text` is *)
(* pressed.  It can be pressed when it is enabled and no other window      *)
(* holds the grab.  MonthlySalesPage.__init__ ends in refresh_dropdowns,   *)
(* whose get_years raises on a table with text dates; the window is there  *)
(* all the same.                                                           *)
open_page_from(text) ==
    /\ main_window = "shown"
    /\ dashboard_page # None
    /\ open_page = NoPage
    /\ exit_page = "none"
    /\ \E i \in DOMAIN dashboard_page.buttons :
          dashboard_page.buttons[i] = text /\ dashboard_page.state[i] = "normal"
    /\ pc = "idle"
    /\ pc' = "returned"
    /\ op' = "open"
    /\ batch' = NoBatch
    /\ qargs' = NoArgs
    /\ ret' = IF text = "Monthly Sales"
                 /\ years(sales_data, CHOOSE y \in NowYears : TRUE).ret = "raised"
              THEN "raised" ELSE "None"
    /\ msg' = "none"
    /\ wrote' = "no"
    /\ result' = <<>>
    /\ old_data' = sales_data
    /\ old_file' = file
    /\ open_page' = BasePage(page_title(text))
    /\ open_analysis_windows' =
          map_event(open_analysis_windows, page_widget(page_title(text)),
                    {page_title(text)})
    /\ UNCHANGED <<file, sales_data, dashboard_page, main_window, login_page,
                   exit_page>>

(* BasePage.on_close: the page is destroyed and the root deiconified. *)
BasePage_on_close ==
    /\ open_page # NoPage
    /\ handler("BasePage.on_close")
    /\ qargs' = NoArgs
    /\ msg' = "none"
    /\ open_page' = NoPage
    /\ main_window' = "shown"
    /\ UNCHANGED <<dashboard_page, login_page, exit_page, open_analysis_windows>>

----------------------------------------------------------------------------
(* DashboardPage.logout_exit and ExitConfirmationPage. *)

(* DashboardPage.logout_exit: the root is withdrawn, then the confirmation *)
(* window is created and made transient for the root.  A transient window  *)
(* takes the state of its master when it is first mapped, and window       *)
(* managers may create it withdrawn when the master is withdrawn           *)
(* (tk8.6/dialog.tcl, lines 57-62): `state` is what becomes of it.         *)
logout_exit(state) ==
    /\ main_window = "shown"
    /\ dashboard_page # None
    /\ dashboard_page.exit_button = "normal"
    /\ open_page = NoPage
    /\ exit_page = "none"
    /\ handler("logout_exit")
    /\ qargs' = NoArgs
    /\ msg' = "none"
    /\ main_window' = "withdrawn"
    /\ exit_page' = state
    /\ UNCHANGED <<dashboard_page, login_page, open_page, open_analysis_windows>>

(* ExitConfirmationPage.on_yes: the root is destroyed. *)
on_yes ==
    /\ exit_page = "shown"
    /\ handler("on_yes")
    /\ qargs' = NoArgs
    /\ msg' = "none"
    /\ main_window' = "destroyed"
    /\ exit_page' = "none"
    /\ UNCHANGED <<dashboard_page, login_page, open_page, open_analysis_windows>>

(* ExitConfirmationPage.on_no, also the window's close button. *)
on_no ==
    /\ exit_page = "shown"
    /\ handler("on_no")
    /\ qargs' = NoArgs
    /\ msg' = "none"
    /\ main_window' = "shown"
    /\ exit_page' = "none"
    /\ UNCHANGED <<dashboard_page, login_page, open_page, open_analysis_windows>>

----------------------------------------------------------------------------
(* DataImportPage: choose_file, preview_data, save_data. *)

MaxPreviewRows == 1   \* rows of a file chosen in the import view

(* The files the file dialog can return: CSV files that read as a table   *)
(* (of a valid row, a row with an unparsable date, a row without a date),  *)
(* a file that cannot be read, a file of another type.                     *)
ImportRows == { r \in RawRows : r.Date \in {IsoTxt(0), BadTxt, Null} }

ImportFiles ==
    { [kind |-> "csv",
       table |-> [cols |-> c, rows |-> [i \in DOMAIN rs |-> Project(rs[i], c)]]] :
        c \in {required_cols, required_cols \ {"Total"}},
        rs \in SeqsUpTo(ImportRows, MaxPreviewRows) }
      \cup { [kind |-> "unreadable", table |-> NoBatch],
             [kind |-> "other", table |-> NoBatch] }

(* DataImportPage.choose_file: f is the dialog's answer, NoFile when it is *)
(* cancelled.                                                              *)
choose_file(f) ==
    /\ open_page.title = "Data Import"
    /\ handler("choose_file")
    /\ qargs' = NoArgs
    /\ msg' = "none"
    /\ open_page' = IF f # NoFile
                    THEN [open_page EXCEPT !.file_path = f,
                                           !.save_button = "disabled",
                                           !.displayed = <<>>]
                    ELSE [open_page EXCEPT !.file_path = NoFile]
    /\ UNCHANGED <<dashboard_page, main_window, login_page, exit_page,
                   open_analysis_windows>>

(* Variant of preview_button: the columns are not looked at. *)
preview_button_any_columns(df) == "normal"

(* Lines 1204-1211: the state preview_data gives the save button. *)
preview_button(df) ==
    IF has_required_cols(df.cols) THEN "normal" ELSE "disabled"

(* DataImportPage.preview_data *)
preview_data ==
    /\ open_page.title = "Data Import"
    /\ handler("preview_data")
    /\ qargs' = NoArgs
    /\ UNCHANGED <<dashboard_page, main_window, login_page, exit_page,
                   open_analysis_windows>>
    /\ CASE open_page.file_path.kind = "none" ->
                msg' = "No File" /\ open_page' = open_page
         [] open_page.file_path.kind = "other" ->
                msg' = "Invalid File" /\ open_page' = open_page
         [] open_page.file_path.kind = "unreadable" ->
                /\ msg' = "Preview Error"
                /\ open_page' = [open_page EXCEPT !.preview_df = NoPreview,
                                                  !.save_button = "disabled"]
         [] open_page.file_path.kind = "csv" ->
                /\ msg' = "none"
                /\ open_page' =
                      [open_page EXCEPT
                          !.preview_df = open_page.file_path.table,
                          !.displayed = open_page.file_path.table.rows,
                          !.save_button =
                              preview_button(open_page.file_path.table)]

(* add_data works on the frame it is given: what new_df holds after the    *)
(* call.                                                                   *)
new_df_after(new_df) ==
    IF import_rows(new_df).msg \in {"Import Error", "Data Conversion Error"}
    THEN new_df
    ELSE [cols |-> new_df.cols, rows |-> dropna(convert(new_df.rows))]

(* DataImportPage.save_data, the command of the "Save to System" button,   *)
(* on the view's preview_df.                                               *)
save_data(io_ok) ==
    /\ open_page.title = "Data Import"
    /\ open_page.save_button = "normal"
    /\ UNCHANGED <<main_window, login_page, exit_page>>
    /\ IF open_page.preview_df = NoPreview \/ open_page.preview_df.rows = <<>>
       THEN /\ handler("save_data")
            /\ qargs' = NoArgs
            /\ msg' = "No Data"
            /\ UNCHANGED <<dashboard_page, open_page, open_analysis_windows>>
       ELSE /\ add_data_call("save_data", open_page.preview_df, io_ok)
            /\ IF ret' = "True"
               THEN /\ dashboard_page' =
                         update_all_page_dropdowns(dashboard_page, sales_data')
                    /\ open_analysis_windows' =
                         map_event(open_analysis_windows, dashboard_widget,
                                   {open_page.title})
                    /\ open_page' =
                         [open_page EXCEPT
                             !.preview_df = new_df_after(open_page.preview_df),
                             !.displayed = <<>>,
                             !.save_button = "disabled"]
               ELSE /\ open_page' =
                         [open_page EXCEPT
                             !.preview_df = new_df_after(open_page.preview_df)]
                    /\ UNCHANGED <<dashboard_page, open_analysis_windows>>

----------------------------------------------------------------------------
(* The views with a date range: WeeklySalesPage.generate_summary,          *)
(* ProductPreferencePage.analyze_preferences,                              *)
(* SalesDistributionPage.analyze_distribution, and                         *)
(* DataExportPage.export_data in its view.                                 *)

(* The check after the query: nothing to show. *)
no_data(name, rows) ==
    \/ rows = <<>>
    \/ /\ name = "generate_summary"
       /\ sum([i \in DOMAIN rows |-> Num(rows[i].Total)]) = 0

(* ax.pie raises ValueError on a negative wedge. *)
pie_raises(name, rows) ==
    /\ name = "analyze_preferences"
    /\ \E i \in DOMAIN rows : rows[i].UnitsSold < 0

(* The body the three handlers share: `query` is the DataManager method    *)
(* the handler calls and `outs` the outcomes that call can have.           *)
view_handler(name, title, query, start_str, end_str, branch, outs) ==
    /\ open_page.title = title
    /\ handler(name)
    /\ UNCHANGED <<dashboard_page, main_window, login_page, exit_page,
                   open_analysis_windows>>
    /\ LET args == [NoArgs EXCEPT !.ranged = TRUE, !.start = start_str.v,
                                  !.end = end_str.v, !.branch = branch,
                                  !.start_str = start_str,
                                  !.end_str = end_str]
           cleared == [open_page EXCEPT !.displayed = <<>>]
       IN IF empty(sales_data)
          THEN msg' = "No Data" /\ qargs' = args /\ open_page' = cleared
          ELSE IF ~strptime_ok(start_str) \/ ~strptime_ok(end_str)
          THEN msg' = "Input Error" /\ qargs' = args /\ open_page' = open_page
          ELSE IF start_str.v > end_str.v
          THEN msg' = "Input Error" /\ qargs' = args /\ open_page' = open_page
          ELSE \E o \in outs :
                  /\ qargs' = [args EXCEPT !.queried = query]
                  /\ IF o.ret = "raised"
                     THEN msg' = "Error" /\ open_page' = open_page
                     ELSE IF no_data(name, o.rows)
                     THEN msg' = "No Data" /\ open_page' = cleared
                     ELSE /\ msg' = IF pie_raises(name, o.rows)
                                    THEN "Input Error" ELSE "none"
                          /\ open_page' = [open_page EXCEPT !.displayed = o.rows]

generate_summary(start_str, end_str, branch) ==
    view_handler("generate_summary", "Weekly Sales Summary", "get_weekly_sales",
                 start_str, end_str, branch,
                 {weekly_sales(sales_data, start_str.v, end_str.v, branch)})

analyze_preferences(start_str, end_str, branch) ==
    view_handler("analyze_preferences", "Product Preference Analysis",
                 "get_product_preferences", start_str, end_str, branch,
                 product_preferences(sales_data, TRUE, start_str.v, end_str.v,
                                     branch))

analyze_distribution(start_str, end_str, branch) ==
    view_handler("analyze_distribution", "Sales Distribution Analysis",
                 "get_sales_distribution", start_str, end_str, branch,
                 {sales_distribution(sales_data, TRUE, start_str.v, end_str.v,
                                     branch)})

(* DataExportPage.export_data pressed in the open export view. *)
DataExportPage_export_data(branch, product, start_str, end_str, path_chosen, io_ok) ==
    /\ open_page.title = "Data Export"
    /\ export_data(branch, product, start_str, end_str, path_chosen, io_ok)

Views ==
    \E d \in ExportDates, b \in {"All Branches", "Colombo"} :
        \/ generate_summary(d[1], d[2], b)
        \/ analyze_preferences(d[1], d[2], b)
        \/ analyze_distribution(d[1], d[2], b)
        \/ \E p \in {"All Products", "Milk"}, x \in ExportEnds :
              DataExportPage_export_data(b, p, d[1], d[2], x[1], x[2])

AppNext ==
    \/ Return
    \/ \E username \in Usernames, password \in Passwords :
          attempt_login(username, password)
    \/ LoginPage_on_close
    \/ \E text \in Range(buttons_config("admin")) : open_page_from(text)
    \/ BasePage_on_close
    \/ \E state \in {"shown", "withdrawn"} : logout_exit(state)
    \/ on_yes
    \/ on_no
    \/ \E f \in ImportFiles \cup {NoFile} : choose_file(f)
    \/ preview_data
    \/ \E io_ok \in BOOLEAN : save_data(io_ok)
    \/ Views

AppSpec == Init /\ [][AppNext]_vars

----------------------------------------------------------------------------
(* Vocabulary of the properties. *)

Returned(name) == pc = "returned" /\ op = name

(* A row of a batch or of a file that needs no repair: its date parses,    *)
(* its three numbers are numeric and no required field is missing.         *)
valid_raw(r) ==
    /\ r.Date.k = "isotxt"
    /\ r.Branch # NA /\ r.Product # NA
    /\ r.Quantity.k = "numtxt" /\ r.UnitPrice.k = "numtxt" /\ r.Total.k = "numtxt"

valid_rows(b) == SelectSeq(b.rows, valid_raw)

(* A record of the table: a date, a branch, a product and three numbers. *)
valid_record(r) ==
    /\ r.Date.k = "ts"
    /\ r.Branch # NA /\ r.Product # NA
    /\ r.Quantity.k = "num" /\ r.UnitPrice.k = "num" /\ r.Total.k = "num"

six(r) == <<r.Date, r.Branch, r.Product, r.Quantity, r.UnitPrice, r.Total>>

record_set(rows) == { six(rows[i]) : i \in DOMAIN rows }

readable(f) == f.state = "ok" /\ required_cols \subseteq f.cols

valid_row_set(f) ==
    IF readable(f) THEN record_set(SelectSeq(f.rows, valid_raw)) ELSE {}

(* The file holds exactly the table. *)
file_holds_table == file = to_csv(sales_data)

----------------------------------------------------------------------------
(* C1: add_data on a batch with the six required columns either returns    *)
(* True, with len(old) + len(valid_rows(B)) records in the table and the   *)
(* table written to the backing file, or valid_rows(B) is empty, it        *)
(* returns False and the table is unchanged.  (Fails on the code.)         *)
C1_AddDataOutcome ==
    (Returned("add_data") /\ required_cols \subseteq batch.cols) =>
        \/ /\ ret = "True"
           /\ Len(sales_data.rows) = Len(old_data.rows) + Len(valid_rows(batch))
           /\ wrote = "ok"
           /\ file_holds_table
        \/ /\ valid_rows(batch) = <<>>
           /\ ret = "False"
           /\ sales_data = old_data

(* C2: add_data on a batch that lacks a required column returns False and  *)
(* leaves the table and the backing file as they were, without attempting  *)
(* a write.                                                                *)
C2_MissingColumnRejected ==
    (Returned("add_data") /\ ~(required_cols \subseteq batch.cols)) =>
        /\ ret = "False"
        /\ sales_data = old_data
        /\ file = old_file
        /\ wrote = "no"

(* C2's case: a batch without Total, holding a row that is otherwise valid, *)
(* is offered to a table that has records.                                 *)
C2_Witness ==
    /\ Returned("add_data")
    /\ batch.cols = required_cols \ {"Total"}
    /\ \E i \in DOMAIN batch.rows : batch.rows[i].Date.k = "isotxt"
                                    /\ batch.rows[i].Quantity.k = "numtxt"
    /\ old_data.rows # <<>>

(* C3: whenever add_data returns True the backing file holds the whole     *)
(* table, also when the write failed.  (Fails on the code.)                *)
C3_TrueMeansPersisted ==
    (Returned("add_data") /\ ret = "True") => file_holds_table

(* C4: extra columns of a batch are ignored: importing into a six-column   *)
(* table leaves the table, and the file written, with exactly the six      *)
(* columns.  (Fails on the code.)                                          *)
C4_ExtraColumnsIgnored ==
    (Returned("add_data") /\ required_cols \subseteq batch.cols
        /\ old_data.cols = required_cols) =>
        /\ sales_data.cols = required_cols
        /\ (wrote = "ok" => file.cols = required_cols)

C6_RecordsValid ==
    /\ \A i \in DOMAIN sales_data.rows : valid_record(sales_data.rows[i])
    /\ (wrote = "ok" => \A i \in DOMAIN file.rows : valid_raw(file.rows[i]))

(* C7: persisting what was loaded from a file F yields a file whose set of  *)
(* records is the set of valid rows of F, and loading that file again       *)
(* yields the same table.  (Fails on the code.)                            *)
C7_RoundTrip ==
    (Returned("_save_data") /\ wrote = "ok" /\ old_data = _load_data(old_file).df) =>
        /\ record_set(file.rows) = valid_row_set(old_file)
        /\ _load_data(file).df = sales_data

(* C8: the table is changed by add_data only: the five queries, the three  *)
(* accessors, _save_data and export_data return with the table as it was   *)
(* when they were called.                                                  *)
C8_OnlyAddDataMutates ==
    (pc = "returned" /\ op \notin {"add_data", "_load_data"}) =>
        sales_data = old_data

(* C8's case: get_weekly_sales has grouped records of a non-empty table. *)
C8_Witness ==
    /\ Returned("get_weekly_sales")
    /\ ret = "value"
    /\ \E i \in DOMAIN result : result[i].Total # 0

(* C9: get_weekly_sales returns exactly seven rows, Monday to Sunday in    *)
(* that order, for every table and all arguments.  (Fails on the code: on  *)
(* a table whose Date column holds text the call raises.)                  *)
C9_WeeklySevenDays ==
    Returned("get_weekly_sales") =>
        /\ ret = "value"
        /\ Len(result) = 7
        /\ \A i \in 1..7 : result[i].DayOfWeek = DayNames[i]

(* C10 as stated: each total get_weekly_sales returns is >= 0.  (Fails on   *)
(* the code: records with a negative Total are accepted.)                  *)
C10_WeeklyTotalsNonNegative ==
    (Returned("get_weekly_sales") /\ ret = "value") =>
        \A i \in DOMAIN result : result[i].Total >= 0

(* C10 as amended: each total get_weekly_sales returns is >= 0 when no      *)
(* record of the table has a negative Total.                               *)
C10_NonNegativeRecordsGiveNonNegativeTotals ==
    (Returned("get_weekly_sales") /\ ret = "value"
        /\ \A i \in DOMAIN sales_data.rows : sales_data.rows[i].Total.v >= 0) =>
        \A i \in DOMAIN result : result[i].Total >= 0

(* C10's case: a weekday's total is the sum of two records. *)
C10_Witness ==
    /\ Returned("get_weekly_sales")
    /\ ret = "value"
    /\ \A i \in DOMAIN sales_data.rows : sales_data.rows[i].Total.v >= 0
    /\ \E i \in DOMAIN result : result[i].Total > 750


----------------------------------------------------------------------------
(* Vocabulary of the query properties: what a query is asked for, stated   *)
(* over the records of the table.                                          *)

date_within(r, s, e) == r.Date.k = "ts" /\ s <= r.Date.v /\ r.Date.v <= e

branch_matches(r, b) == b \in {"None", "All Branches"} \/ r.Branch = b

RECURSIVE total_over(_, _, _)
total_over(rows, field, S) ==
    IF S = {} THEN 0
    ELSE LET i == CHOOSE j \in S : TRUE
         IN rows[i][field].v + total_over(rows, field, S \ {i})

(* The two records of the scenario: 2024-06-01 Colombo Milk 5 x 150 and    *)
(* 2024-06-02 Kandy Bread 10 x 50.                                         *)
scenario_table ==
    /\ Len(sales_data.rows) = 2
    /\ six(sales_data.rows[1]) =
           <<Ts(0), "Colombo", "Milk", Num(5), Num(150), Num(750)>>
    /\ six(sales_data.rows[2]) =
           <<Ts(1), "Kandy", "Bread", Num(10), Num(50), Num(500)>>

(* C11: the total get_weekly_sales reports for a weekday is the sum of     *)
(* Total over exactly the records with start <= date <= end (both ends     *)
(* included), of the branch asked for (any branch when none is given),     *)
(* whose date falls on that weekday, and 0 when there is none; on the two  *)
(* scenario records and 2024-06-01..2024-06-02 Saturday is 750, Sunday 500 *)
(* and the other days 0.  (Fails on the code: on a table whose Date column *)
(* holds text the call raises and reports no total.)                       *)
C11_WeeklyTotals ==
    Returned("get_weekly_sales") =>
        /\ ret = "value"
        /\ \A i \in 1..7 :
              result[i].Total =
                  total_over(sales_data.rows, "Total",
                      { j \in DOMAIN sales_data.rows :
                          /\ date_within(sales_data.rows[j],
                                         qargs.start, qargs.end)
                          /\ branch_matches(sales_data.rows[j], qargs.branch)
                          /\ day_name(sales_data.rows[j].Date.v) = DayNames[i] })
        /\ (scenario_table /\ qargs.start = 0 /\ qargs.end = 1
                /\ qargs.branch \in {"None", "All Branches"}) =>
              \A i \in 1..7 :
                  result[i].Total = CASE DayNames[i] = "Saturday" -> 750
                                      [] DayNames[i] = "Sunday" -> 500
                                      [] OTHER -> 0


price_point(r) == <<r.Date, r.UnitPrice>>

(* C12: get_product_price_history returns exactly the distinct (date, unit *)
(* price) pairs of the records whose product equals the name asked for:    *)
(* no pair twice, no pair of another product, rows in non-decreasing date  *)
(* order, and at least one row whenever a record has that product.  (Fails *)
(* on the code: when the product has a record whose date is text and one   *)
(* whose date is a Timestamp the call raises.)                             *)
C12_PriceHistory ==
    Returned("get_product_price_history") =>
        /\ ret = "value"
        /\ { price_point(result[i]) : i \in DOMAIN result } =
               { price_point(sales_data.rows[j]) :
                   j \in { k \in DOMAIN sales_data.rows :
                             sales_data.rows[k].Product = qargs.product } }
        /\ \A i, j \in DOMAIN result : i < j =>
              /\ price_point(result[i]) # price_point(result[j])
              /\ result[i].Date.k = "ts" /\ result[j].Date.k = "ts"
              /\ result[i].Date.v <= result[j].Date.v
        /\ (\E k \in DOMAIN sales_data.rows :
                sales_data.rows[k].Product = qargs.product) => result # <<>>


(* The records a ranged query is asked for: in the date range when one is  *)
(* given, and of the branch when one is given.                             *)
range_matches(r) ==
    /\ qargs.ranged => date_within(r, qargs.start, qargs.end)
    /\ branch_matches(r, qargs.branch)

ranged_matching == { j \in DOMAIN sales_data.rows :
                       range_matches(sales_data.rows[j]) }

of_product_in(S, p) == { j \in S : sales_data.rows[j].Product = p }

(* C13: get_product_preferences returns one row per product that has a    *)
(* matching record, with UnitsSold the sum of Quantity and Revenue the sum *)
(* of Total over that product's matching records, in descending order of   *)
(* UnitsSold.  (Fails on the code: with a date range, on a table whose     *)
(* Date column holds text, the call raises.)                               *)
C13_Preferences ==
    Returned("get_product_preferences") =>
        /\ ret = "value"
        /\ { result[i].Product : i \in DOMAIN result } =
               { sales_data.rows[j].Product : j \in ranged_matching }
        /\ \A i, j \in DOMAIN result :
              i < j => /\ result[i].Product # result[j].Product
                       /\ result[i].UnitsSold >= result[j].UnitsSold
        /\ \A i \in DOMAIN result :
              LET mine == of_product_in(ranged_matching, result[i].Product)
              IN /\ result[i].UnitsSold =
                        total_over(sales_data.rows, "Quantity", mine)
                 /\ result[i].Revenue =
                        total_over(sales_data.rows, "Total", mine)

(* The place of a product in the input of the sort: groupby hands the      *)
(* products over in ascending order of their names.                        *)
group_position(p) == CHOOSE i \in DOMAIN ProductOrder : ProductOrder[i] = p

monthly_matching ==
    { j \in DOMAIN sales_data.rows :
        LET r == sales_data.rows[j]
        IN /\ branch_matches(r, qargs.branch)
           /\ qargs.year # 0 => (r.Date.k = "ts" /\ year_of(r.Date.v) = qargs.year)
           /\ qargs.month # 0 =>
                  (r.Date.k = "ts" /\ month_of(r.Date.v) = qargs.month) }

(* C15: get_monthly_sales returns exactly one group per product that has a *)
(* record passing all the filters given, with Quantity the sum, UnitPrice  *)
(* the mean and Total the sum over that product's passing records; on the  *)
(* two scenario records with "All Branches", 2024 and 6 the groups are     *)
(* Milk (5, 150, 750) and Bread (10, 50, 500).  (Fails on the code: with a *)
(* year or a month, on a table whose Date column holds text, the call      *)
(* raises.)                                                                *)
C15_MonthlyGroups ==
    Returned("get_monthly_sales") =>
        /\ ret = "value"
        /\ { result[i].Product : i \in DOMAIN result } =
               { sales_data.rows[j].Product : j \in monthly_matching }
        /\ \A i, j \in DOMAIN result :
              i < j => result[i].Product # result[j].Product
        /\ \A i \in DOMAIN result :
              LET mine == of_product_in(monthly_matching, result[i].Product)
              IN /\ result[i].Quantity =
                        total_over(sales_data.rows, "Quantity", mine)
                 /\ result[i].UnitPrice.sum =
                        total_over(sales_data.rows, "UnitPrice", mine)
                 /\ result[i].UnitPrice.count = Cardinality(mine)
                 /\ result[i].Total = total_over(sales_data.rows, "Total", mine)
        /\ (scenario_table /\ qargs.branch = "All Branches"
                /\ qargs.year = 2024 /\ qargs.month = 6) =>
              { <<result[i].Product, result[i].Quantity,
                  result[i].UnitPrice.sum, result[i].UnitPrice.count,
                  result[i].Total>> : i \in DOMAIN result } =
                  { <<"Milk", 5, 150, 1, 750>>, <<"Bread", 10, 50, 1, 500>> }

(* C16: get_sales_distribution returns one value per matching record, not  *)
(* aggregated: as many entries as there are records in the date range and  *)
(* of the branch, each Total as often as matching records carry it.        *)
(* (Fails on the code: with a date range, on a table whose Date column     *)
(* holds text, the call raises.)                                           *)
C16_Distribution ==
    Returned("get_sales_distribution") =>
        /\ ret = "value"
        /\ Len(result) = Cardinality(ranged_matching)
        /\ \A v \in { result[i] : i \in DOMAIN result }
                 \cup { sales_data.rows[j].Total.v : j \in ranged_matching } :
              Cardinality({ i \in DOMAIN result : result[i] = v }) =
                  Cardinality({ j \in ranged_matching :
                                  sales_data.rows[j].Total.v = v })

five_queries == {"get_monthly_sales", "get_product_price_history",
                 "get_weekly_sales", "get_product_preferences",
                 "get_sales_distribution"}

(* No record of the table matches what the returned query was asked for. *)
nothing_matches ==
    CASE op = "get_monthly_sales" -> monthly_matching = {}
      [] op = "get_product_price_history" ->
             \A j \in DOMAIN sales_data.rows :
                 sales_data.rows[j].Product # qargs.product
      [] OTHER -> ranged_matching = {}

(* C17: none of the five queries ends in an error when the table is empty  *)
(* or no record matches: the monthly, price-history and preference queries *)
(* return no rows, the distribution query an empty sequence, the weekly    *)
(* query seven rows of 0.  (Fails on the code: on a table whose Date       *)
(* column holds text the date filters raise.)                              *)
C17_NoErrorWithoutMatches ==
    (pc = "returned" /\ op \in five_queries
        /\ (sales_data.rows = <<>> \/ nothing_matches)) =>
        /\ ret = "value"
        /\ IF op = "get_weekly_sales"
           THEN Len(result) = 7 /\ \A i \in 1..7 : result[i].Total = 0
           ELSE result = <<>>

(* A list of names is strictly ascending and holds exactly the names S. *)
ascending_names(list, order, S) ==
    /\ { list[i] : i \in DOMAIN list } = S
    /\ \A i, j \in DOMAIN list : i < j =>
          \E a, b \in DOMAIN order :
              a < b /\ order[a] = list[i] /\ order[b] = list[j]

(* C18: get_branches and get_products return strictly ascending lists of   *)
(* exactly the branch and product values that occur, empty on an empty     *)
(* table; get_years returns a strictly ascending list of exactly the years *)
(* that occur, and the one-element list of the current year on an empty    *)
(* table, never an empty list.  (Fails on the code: on a table whose Date  *)
(* column holds text get_years raises.)                                    *)
C18_Accessors ==
    /\ Returned("get_branches") =>
          /\ ret = "value"
          /\ ascending_names(result, BranchOrder,
                 { sales_data.rows[j].Branch : j \in DOMAIN sales_data.rows })
    /\ Returned("get_products") =>
          /\ ret = "value"
          /\ ascending_names(result, ProductOrder,
                 { sales_data.rows[j].Product : j \in DOMAIN sales_data.rows })
    /\ Returned("get_years") =>
          /\ ret = "value"
          /\ result # <<>>
          /\ \A i, j \in DOMAIN result : i < j => result[i] < result[j]
          /\ IF sales_data.rows = <<>>
             THEN result = <<qargs.year>>
             ELSE /\ \A j \in DOMAIN sales_data.rows :
                        sales_data.rows[j].Date.k = "ts"
                  /\ { result[i] : i \in DOMAIN result } =
                         { year_of(sales_data.rows[j].Date.v) :
                             j \in DOMAIN sales_data.rows }


----------------------------------------------------------------------------
(* Vocabulary of the dashboard properties. *)

dashboard_shown == dashboard_page # None

(* The state of the dashboard's button with the given text. *)
button_state(text) ==
    IF text = "Logout / Exit" THEN dashboard_page.exit_button
    ELSE LET at == { i \in DOMAIN dashboard_page.buttons :
                       dashboard_page.buttons[i] = text }
         IN IF at = {} THEN "absent"
            ELSE dashboard_page.state[CHOOSE i \in at : TRUE]

report_buttons == {"Monthly Sales", "Price Analysis", "Weekly Sales",
                   "Product Preference", "Sales Distribution"}

(* C19: whenever the dashboard is shown, after the login and after any     *)
(* sequence of successful or failed imports, each of the five report       *)
(* buttons is enabled if and only if the table has rows; a successful      *)
(* import into an empty table has enabled them when save_data returns.     *)
C19_ReportButtonsFollowData ==
    dashboard_shown =>
        \A b \in report_buttons :
            button_state(b) = (IF sales_data.rows # <<>> THEN "normal"
                               ELSE "disabled")

(* C19's case: an import through the import view has put the first records *)
(* into an empty table while the dashboard is shown.                       *)
C19_Witness ==
    /\ Returned("save_data")
    /\ dashboard_shown
    /\ ret = "True"
    /\ old_data.rows = <<>>
    /\ sales_data.rows # <<>>

(* C20 as stated: Data Import, Data Export and Logout / Exit are enabled   *)
(* in every state in which the dashboard is shown, also while the table is *)
(* empty.  (Fails on the code: Data Export is disabled while the table is  *)
(* empty.)                                                                 *)
C20_ExemptButtonsAlwaysEnabled ==
    dashboard_shown =>
        \A b \in {"Data Import", "Data Export", "Logout / Exit"} :
            button_state(b) = "normal"

(* C20 as amended: Data Import and Logout / Exit are enabled in every      *)
(* state in which the dashboard is shown, also while the table is empty;   *)
(* Data Export is enabled if and only if the table has rows.               *)
C20_ImportAndExitAlwaysEnabled ==
    dashboard_shown =>
        /\ button_state("Data Import") = "normal"
        /\ button_state("Logout / Exit") = "normal"
        /\ button_state("Data Export") = (IF sales_data.rows # <<>> THEN "normal"
                                          ELSE "disabled")

(* C20's case: the dashboard is shown over an empty table after an import  *)
(* that was turned down.                                                   *)
C20_Witness ==
    /\ Returned("save_data")
    /\ dashboard_shown
    /\ ret = "False"
    /\ sales_data.rows = <<>>


----------------------------------------------------------------------------
(* C25: when a batch with the six required columns holds a row whose Date  *)
(* cannot be parsed and a row that is valid, add_data drops the invalid    *)
(* rows only: it returns True and the table grows by the number of valid   *)
(* rows.  (Fails on the code: pd.to_datetime raises on the unparsable      *)
(* date and the whole batch is turned down.)                               *)
C25_BadDateRowsDropped ==
    (Returned("add_data") /\ required_cols \subseteq batch.cols
        /\ (\E i \in DOMAIN batch.rows : batch.rows[i].Date.k = "badtxt")
        /\ valid_rows(batch) # <<>>) =>
        /\ ret = "True"
        /\ Len(sales_data.rows) = Len(old_data.rows) + Len(valid_rows(batch))

(* C26: when the write of the backing file fails, _save_data shows the     *)
(* error, does not raise, and leaves the table as it was when _save_data   *)
(* was called: as at the call when called on its own, and the old records  *)
(* followed by the appended ones when called by add_data.                  *)
C26_FailedSaveKeepsTable ==
    (pc = "returned" /\ op \in {"_save_data", "add_data"} /\ wrote = "failed") =>
        /\ msg = "Save Error"
        /\ ret # "raised"
        /\ file = old_file
        /\ op = "_save_data" => sales_data = old_data
        /\ op = "add_data" =>
              /\ Len(sales_data.rows) > Len(old_data.rows)
              /\ \A i \in DOMAIN old_data.rows :
                    six(sales_data.rows[i]) = six(old_data.rows[i])

(* C26's case: the write fails in a _save_data called on a table that has  *)
(* records.                                                                *)
C26_Witness ==
    /\ Returned("_save_data")
    /\ wrote = "failed"
    /\ sales_data.rows # <<>>


branch_queries == {"get_monthly_sales", "get_weekly_sales",
                   "get_product_preferences", "get_sales_distribution"}

(* What the query `name` can return on the present table for arguments a. *)
outcomes(name, a) ==
    CASE name = "get_monthly_sales" ->
             { monthly_sales(sales_data, a.branch, a.year, a.month) }
      [] name = "get_weekly_sales" ->
             { weekly_sales(sales_data, a.start, a.end, a.branch) }
      [] name = "get_product_preferences" ->
             product_preferences(sales_data, a.ranged, a.start, a.end, a.branch)
      [] name = "get_sales_distribution" ->
             { sales_distribution(sales_data, a.ranged, a.start, a.end,
                                  a.branch) }

other_absent(b) == IF b = "None" THEN "All Branches" ELSE "None"

(* C27: an absent filter means no filter.  The four queries that take a    *)
(* branch return for branch None what they return for "All Branches", the  *)
(* result over all branches; get_monthly_sales without a year, or without  *)
(* a month, restricts neither; a branch that names no branch of the table  *)
(* gives the empty result (seven rows of 0 for the weekly query), not the  *)
(* unfiltered one.  (Fails on the code: on a table whose Date column holds *)
(* text the date filters raise, also for a branch that names no branch.)   *)
C27_AbsentFilterMeansNoFilter ==
    (pc = "returned" /\ op \in branch_queries) =>
        /\ ret = "value"
        /\ qargs.branch \in {"None", "All Branches"} =>
              /\ [ret |-> ret, rows |-> result] \in
                     outcomes(op, [qargs EXCEPT !.branch = other_absent(@)])
              /\ op = "get_sales_distribution" =>
                     Len(result) = Cardinality({ j \in DOMAIN sales_data.rows :
                         qargs.ranged => date_within(sales_data.rows[j],
                                                     qargs.start, qargs.end) })
        /\ (op = "get_monthly_sales" /\ qargs.year = 0 /\ qargs.month = 0
                /\ qargs.branch \in {"None", "All Branches"}) =>
              { result[i].Product : i \in DOMAIN result } =
                  { sales_data.rows[j].Product : j \in DOMAIN sales_data.rows }
        /\ (qargs.branch \notin {"None", "All Branches"}
                /\ \A j \in DOMAIN sales_data.rows :
                       sales_data.rows[j].Branch # qargs.branch) =>
              IF op = "get_weekly_sales"
              THEN Len(result) = 7 /\ \A i \in 1..7 : result[i].Total = 0
              ELSE result = <<>>


(* The record passes the three filters of the export view. *)
passes_export(r) ==
    /\ qargs.branch = "All Branches" \/ r.Branch = qargs.branch
    /\ qargs.product = "All Products" \/ r.Product = qargs.product
    /\ date_within(r, qargs.start, qargs.end)

(* C28: export_data writes a file only with the records that pass the      *)
(* branch, product and date filters at once, and writes no file when the   *)
(* table is empty, when no record passes, or when the save dialog is       *)
(* cancelled.                                                              *)
C28_ExportOnlyFiltered ==
    Returned("export_data") =>
        /\ wrote = "export" =>
              result = LET kept == SelectSeq(sales_data.rows, passes_export)
                       IN [i \in DOMAIN kept |-> to_csv_row(kept[i])]
        /\ (\/ sales_data.rows = <<>>
            \/ \A j \in DOMAIN sales_data.rows :
                   ~passes_export(sales_data.rows[j])
            \/ ~qargs.path_chosen) => wrote = "no"

(* C28's case: a file is written that leaves out a record of the table. *)
C28_Witness ==
    /\ Returned("export_data")
    /\ wrote = "export"
    /\ result # <<>>
    /\ Len(result) < Len(sales_data.rows)


(* The record a valid row of a batch stands for. *)
as_record(r) == <<Ts(r.Date.v), r.Branch, r.Product, Num(r.Quantity.v),
                  Num(r.UnitPrice.v), Num(r.Total.v)>>

sixes(rows) == [i \in DOMAIN rows |-> six(rows[i])]

(* C29: the table is append-only.  No call removes or alters a record or   *)
(* lowers the record count; after a successful add_data the table is the   *)
(* previous table, in its order, followed by the valid rows of the batch   *)
(* in batch order; a table that has records keeps having records.          *)
C29_AppendOnly ==
    pc = "returned" =>
        /\ Len(old_data.rows) <= Len(sales_data.rows)
        /\ \A i \in DOMAIN old_data.rows :
              six(sales_data.rows[i]) = six(old_data.rows[i])
        /\ old_data.rows # <<>> => sales_data.rows # <<>>
        /\ (op = "add_data" /\ ret = "True") =>
              sixes(sales_data.rows) =
                  sixes(old_data.rows) \o
                      [i \in DOMAIN valid_rows(batch) |->
                          as_record(valid_rows(batch)[i])]

(* C29's case: two different valid rows of a batch have been appended to  *)
(* a table that had a record.                                              *)
C29_Witness ==
    /\ Returned("add_data")
    /\ ret = "True"
    /\ old_data.rows # <<>>
    /\ Len(sales_data.rows) = Len(old_data.rows) + 2
    /\ six(sales_data.rows[Len(sales_data.rows)]) #
           six(sales_data.rows[Len(sales_data.rows) - 1])


----------------------------------------------------------------------------
(* The pair the login entries held is one of the hardcoded pairs. *)
valid_pair(a) ==
    a.username \in DOMAIN valid_users /\ valid_users[a.username] = a.password

(* C22: the dashboard comes to be shown only by an attempt_login with one  *)
(* of the hardcoded pairs; an attempt with any other pair leaves the login *)
(* window open, the dashboard not shown and the main window hidden, and    *)
(* the password entry empty, and after it another attempt can be made.     *)
C22_DashboardOnlyAfterValidLogin ==
    /\ [][(~dashboard_shown /\ dashboard_shown')
             => (op' = "attempt_login" /\ valid_pair(qargs'))]_vars
    /\ [][(op' = "attempt_login" /\ pc' = "returned" /\ ~valid_pair(qargs'))
             => /\ login_page'.open
                /\ login_page'.password_entry = ""
                /\ ~dashboard_shown'
                /\ main_window' = "withdrawn"]_vars
    /\ [](login_page.open /\ pc = "idle"
             => ENABLED (\E username \in Usernames, password \in Passwords :
                            attempt_login(username, password)))

(* C22 witness: a login attempt with a wrong password for a known user has *)
(* returned: the login window is open and shows the error.                 *)
C22_Witness ==
    /\ Returned("attempt_login")
    /\ qargs.username \in DOMAIN valid_users
    /\ ~valid_pair(qargs)
    /\ login_page.error_label = "Invalid credentials"
    /\ login_page.open

(* C30: while the application is alive the main window is hidden only     *)
(* while the login window or the exit confirmation is open on the screen;  *)
(* Logout / Exit hides the main window and opens the confirmation; No (or  *)
(* closing the confirmation) shows the main window again, with dashboard   *)
(* and dataset unchanged; Yes ends the application; closing the login      *)
(* window ends it; closing a report view leaves the dashboard shown.       *)
C30_WindowLifecycle ==
    /\ [](main_window = "withdrawn" => (login_page.open \/ exit_page = "shown"))
    /\ [][(op' = "logout_exit" /\ pc' = "returned")
             => (main_window' = "withdrawn" /\ exit_page' = "shown")]_vars
    /\ [][(op' = "on_no" /\ pc' = "returned")
             => /\ main_window' = "shown" /\ exit_page' = "none"
                /\ dashboard_page' = dashboard_page
                /\ sales_data' = sales_data]_vars
    /\ [][(op' = "on_yes" /\ pc' = "returned")
             => main_window' = "destroyed"]_vars
    /\ [][(op' = "LoginPage.on_close" /\ pc' = "returned")
             => (main_window' = "destroyed" /\ ~dashboard_shown')]_vars
    /\ [][(op' = "BasePage.on_close" /\ pc' = "returned")
             => /\ main_window' = "shown" /\ open_page' = NoPage
                /\ dashboard_page' = dashboard_page
                /\ dashboard_shown']_vars

(* C23: open_analysis_windows lists the report views that are open: every  *)
(* open page that has refresh_dropdowns is in the list (so that a          *)
(* successful import refreshes it), no window of the list is closed, and   *)
(* no window is in the list twice.                                         *)
C23_OpenViewsListed ==
    /\ open_page.title \in RefreshPages
          => open_page.title \in Range(open_analysis_windows)
    /\ \A i \in DOMAIN open_analysis_windows :
          open_analysis_windows[i] = open_page.title
    /\ \A i, j \in DOMAIN open_analysis_windows :
          open_analysis_windows[i] = open_analysis_windows[j] => i = j

(* The import view's "Save to System" button. *)
save_enabled == open_page.title = "Data Import" /\ open_page.save_button = "normal"

bad_range(a) ==
    \/ a.start_str.k # "isotxt"
    \/ a.end_str.k # "isotxt"
    \/ a.start_str.v > a.end_str.v

DateViews ==
    {"generate_summary", "analyze_preferences", "analyze_distribution",
     "export_data"}

(* C21: when a date text of the weekly, preference, distribution or export *)
(* view is no valid date, or the start is after the end, the handler calls *)
(* no query and writes no file, shows the "Input Error" message, and       *)
(* leaves what the view displays, the table and the file as they were.     *)
C21_BadDatesRunNothing ==
    [][(op' \in DateViews /\ pc' = "returned" /\ bad_range(qargs'))
          => /\ qargs'.queried = "none"
             /\ wrote' = "no"
             /\ file' = file
             /\ sales_data' = sales_data
             /\ msg' = "Input Error"
             /\ open_page' = open_page]_vars

(* C21 witness: the weekly view, showing the totals of an earlier summary, *)
(* has returned from a request whose two dates are valid and whose start   *)
(* is after its end.                                                       *)
C21_Witness ==
    /\ Returned("generate_summary")
    /\ qargs.start_str.k = "isotxt" /\ qargs.end_str.k = "isotxt"
    /\ qargs.start_str.v > qargs.end_str.v
    /\ msg = "Input Error"
    /\ open_page.displayed # <<>>

=============================================================================
